---- MODULE Spec2Model ----
(***************************************************************************)
(* Tenant-scoped natural-language-to-query pipeline of the insurance       *)
(* portal (streamlit_app): session context, tenant filter injection,       *)
(* LLM function-call handling, primary / fallback query channels and the   *)
(* response formatter.                                                     *)
(*                                                                         *)
(* Strings that the code builds by concatenation (the where expression)    *)
(* are sequences of lexical tokens; a token is a TLA+ string.              *)
(***************************************************************************)
EXTENDS Integers, Sequences, FiniteSets, TLC

\* ------------------------------------------------------------------ bounds

\* Number of tenants (companies.csv rows); company ids are 1..NumCompanies.
NumCompanies == 2
\* Longest where expression (in tokens) enumerated exhaustively.
MaxWhereLen == 3
\* Longest metrics list the model's LLM returns.
MaxMetrics == 2
\* Largest limit the model's LLM returns.
MaxLimit == 1
\* Rows of the demo date range at day grain (stands for the 366 days of 2024).
DayRows == 3

\* ------------------------------------------------------------ small helpers

Min(S) == CHOOSE x \in S : \A y \in S : x <= y

BoundedSeq(S, n) == UNION {[1..k -> S] : k \in 0..n}

Range(s) == {s[i] : i \in 1..Len(s)}

\* ----------------------------------------------------- session / security.py

\* A value stored under user_context['company_id']: the key may be absent,
\* hold None, or hold an int (authenticate_user stores int(user['company_id'])).
AbsentId == [kind |-> "absent", val |-> 0]
NoneId == [kind |-> "none", val |-> 0]
IntId(n) == [kind |-> "int", val |-> n]

CompanyIdValues == {AbsentId, NoneId} \cup {IntId(n) : n \in 0..NumCompanies}

\* Python truthiness of user_context.get('company_id'): None (also the result
\* of .get on an absent key) and 0 are falsy.
Truthy(v) == v.kind = "int" /\ v.val # 0

\* The session lifetime authenticate_user grants, in minutes.
SessionTimeoutMinutes == 30

\* The fields of user_context the program reads. An email of "" stands for
\* an absent or empty one; session_timeout is absent (set is FALSE) or a
\* point of the clock. EmptyContext is the {} of a fresh session.
Context(company_id, member_id, email, session_timeout) ==
    [company_id |-> company_id, member_id |-> member_id, email |-> email,
     session_timeout |-> session_timeout]
EmptyContext == Context(AbsentId, AbsentId, "", [set |-> FALSE, at |-> 0])

\* validate_session, mutated: the expiry test is missing.
ValidateSessionWithoutExpiry(auth, uc, now) ==
    /\ auth
    /\ uc # EmptyContext
    /\ Truthy(uc.member_id)
    /\ Truthy(uc.company_id)
    /\ uc.email # ""

\* security.validate_session: False when the session is not authenticated,
\* has no user_context, is past its session_timeout, or lacks one of
\* member_id, company_id, email; True otherwise.
validate_session(auth, uc, now) ==
    IF ~auth THEN FALSE
    ELSE IF uc = EmptyContext THEN FALSE
    ELSE IF uc.session_timeout.set /\ now > uc.session_timeout.at THEN FALSE
    ELSE IF ~Truthy(uc.member_id) \/ ~Truthy(uc.company_id) \/ uc.email = "" THEN FALSE
    ELSE TRUE

\* get_company_filter, mutated: returns whatever is stored, never raises.
get_company_filter_unchecked(uc) == [raised |-> FALSE, company_id |-> uc.company_id.val]

\* get_company_filter, mutated: the company_id of the first tenant, captured
\* once, is returned instead of the one the session holds now.
get_company_filter_captured(uc) ==
    IF ~Truthy(uc.company_id)
    THEN [raised |-> TRUE, company_id |-> 0]
    ELSE [raised |-> FALSE, company_id |-> 1]

\* security.get_company_filter: raises ValueError when company_id is falsy,
\* otherwise returns it.
get_company_filter(uc) ==
    IF ~Truthy(uc.company_id)
    THEN [raised |-> TRUE, company_id |-> 0]
    ELSE [raised |-> FALSE, company_id |-> uc.company_id.val]

\* validate_query_filters, mutated: a company_id the dict already carries is
\* kept.
ValidateFiltersKeepingExisting(uc, query_filters) ==
    LET f == get_company_filter(uc)
    IN IF f.raised
       THEN [raised |-> TRUE, dict |-> query_filters]
       ELSE [raised |-> FALSE,
             dict |-> [k \in DOMAIN query_filters \cup {"company_id"} |->
                          IF k \in DOMAIN query_filters THEN query_filters[k]
                          ELSE f.company_id]]

\* security.validate_query_filters: a dict is a function from its keys to
\* their values; the tenant lookup raises before the dict is touched,
\* otherwise company_id is set to the session's.
validate_query_filters(uc, query_filters) ==
    LET f == get_company_filter(uc)
    IN IF f.raised
       THEN [raised |-> TRUE, dict |-> query_filters]
       ELSE [raised |-> FALSE,
             dict |-> [k \in DOMAIN query_filters \cup {"company_id"} |->
                          IF k = "company_id" THEN f.company_id
                          ELSE query_filters[k]]]

\* The fields mask_sensitive_data removes from a dict. No function of the
\* program calls mask_sensitive_data.
sensitive_fields == {"company_id", "member_id", "employee_id"}

\* ------------------------------------------------------- where expressions

\* "{{ Dimension('company_id') }}" and its fully-qualified form.
DimCompanyId == "{{ Dimension('company_id') }}"
QualDimCompanyId == "{{ Dimension('member_claims__company_id') }}"
\* A predicate over another dimension, kept as one token, and its qualified form.
ClaimTypePred == "{{ Dimension('claim_type') }} = 'Medical'"
QualClaimTypePred == "{{ Dimension('member_claims__claim_type') }} = 'Medical'"

\* Date predicates of get_claims_metrics_by_date's default range, one token
\* each, and their qualified forms.
ClaimDateFrom == "{{ Dimension('claim_date') }} >= '2024-01-01'"
ClaimDateTo == "{{ Dimension('claim_date') }} <= '2024-12-31'"
QualClaimDateFrom == "{{ Dimension('member_claims__claim_date') }} >= '2024-01-01'"
QualClaimDateTo == "{{ Dimension('member_claims__claim_date') }} <= '2024-12-31'"

\* Decimal rendering of an int by the f-string.
NumToken(n) == ToString(n)
NumTokens == {NumToken(n) : n \in 0..NumCompanies}

\* Tokens the LLM may put in the where argument.
WhereAlphabet ==
    {"(", ")", "AND", "OR", "=", DimCompanyId, ClaimTypePred}
        \cup {NumToken(n) : n \in 1..NumCompanies}

\* query_args['where']: key absent, JSON null, or a string.
AbsentWhere == [kind |-> "absent", s |-> <<>>]
NullWhere == [kind |-> "null", s |-> <<>>]
StrWhere(s) == [kind |-> "str", s |-> s]

\* Python truthiness of query_args.get('where', ''): '' and None are falsy.
WhereTruthy(w) == w.kind = "str" /\ w.s # <<>>

\* The tenant clause f"{{ Dimension('company_id') }} = {company_id}".
company_filter(company_id) == <<DimCompanyId, "=", NumToken(company_id)>>

\* Number of company_id equality clauses in a token string.
IsCompanyClauseAt(s, i) ==
    /\ i + 2 <= Len(s)
    /\ s[i] \in {DimCompanyId, QualDimCompanyId}
    /\ s[i + 1] = "="
    /\ s[i + 2] \in NumTokens

ClauseCount(s) == Cardinality({i \in 1..Len(s) : IsCompanyClauseAt(s, i)})

\* The company_id equality clauses of s bound to company c.
ClausesFor(s, c) ==
    {i \in 1..Len(s) : IsCompanyClauseAt(s, i) /\ s[i + 2] = NumToken(c)}

\* Injection, mutated: the existing expression is dropped.
InjectReplacing(query_args, company_id) ==
    [query_args EXCEPT !.where = StrWhere(company_filter(company_id))]

\* Injection, mutated: the existing expression is not parenthesised.
InjectUnwrapped(query_args, company_id) ==
    [query_args EXCEPT !.where =
        IF WhereTruthy(@)
        THEN StrWhere(@.s \o <<"AND">> \o company_filter(company_id))
        ELSE StrWhere(company_filter(company_id))]

\* InsuranceAgent._execute_metrics_query, lines 270-277: the tenant clause is
\* AND-ed to the parenthesised existing where, or stands alone.
InjectCompanyFilter(query_args, company_id) ==
    [query_args EXCEPT !.where =
        IF WhereTruthy(@)
        THEN StrWhere(<<"(">> \o @.s \o <<")", "AND">> \o company_filter(company_id))
        ELSE StrWhere(company_filter(company_id))]

\* Qualification, mutated: nothing is rewritten.
QualifyTokenIdentity(t) == t

\* One regex substitution of _qualify_where_clause on a token.
QualifyToken(t) ==
    IF t = DimCompanyId THEN QualDimCompanyId
    ELSE IF t = ClaimTypePred THEN QualClaimTypePred
    ELSE IF t = ClaimDateFrom THEN QualClaimDateFrom
    ELSE IF t = ClaimDateTo THEN QualClaimDateTo
    ELSE t

\* DbtSemanticLayer._qualify_where_clause: None / '' are returned as they
\* are; every Dimension('<friendly>') is replaced by its qualified name.
_qualify_where_clause(w) ==
    IF ~WhereTruthy(w) THEN w
    ELSE StrWhere([i \in 1..Len(w.s) |-> QualifyToken(w.s[i])])

\* ------------------------------------- filter semantics of the query service

\* A row of the tenant data source, as far as filters can tell rows apart
\* (every row's claim_date lies in the demo year).
Rows == [company_id : 1..NumCompanies, medical : BOOLEAN]

Depth(s, i) ==
    Cardinality({j \in 1..i : s[j] = "("}) - Cardinality({j \in 1..i : s[j] = ")"})

Balanced(s) == (\A i \in 1..Len(s) : Depth(s, i) >= 0) /\ Depth(s, Len(s)) = 0

TopLevel(s, tok) == {i \in 1..Len(s) : s[i] = tok /\ Depth(s, i - 1) = 0}

IsAtom(s) ==
    \/ s = <<QualClaimTypePred>>
    \/ s = <<QualClaimDateFrom>>
    \/ s = <<QualClaimDateTo>>
    \/ Len(s) = 3 /\ s[1] = QualDimCompanyId /\ s[2] = "=" /\ s[3] \in NumTokens

RECURSIVE Parses(_)
\* The expression is a well-formed boolean predicate: OR of AND of atoms or
\* parenthesised expressions (AND binds tighter than OR).
Parses(s) ==
    IF s = <<>> \/ ~Balanced(s) THEN FALSE
    ELSE IF TopLevel(s, "OR") # {}
    THEN LET i == Min(TopLevel(s, "OR"))
         IN Parses(SubSeq(s, 1, i - 1)) /\ Parses(SubSeq(s, i + 1, Len(s)))
    ELSE IF TopLevel(s, "AND") # {}
    THEN LET i == Min(TopLevel(s, "AND"))
         IN Parses(SubSeq(s, 1, i - 1)) /\ Parses(SubSeq(s, i + 1, Len(s)))
    ELSE IF Len(s) >= 2 /\ s[1] = "(" /\ s[Len(s)] = ")"
    THEN Parses(SubSeq(s, 2, Len(s) - 1))
    ELSE IsAtom(s)

RECURSIVE Holds(_, _)
\* Truth of a well-formed expression on a row.
Holds(s, row) ==
    IF TopLevel(s, "OR") # {}
    THEN LET i == Min(TopLevel(s, "OR"))
         IN Holds(SubSeq(s, 1, i - 1), row) \/ Holds(SubSeq(s, i + 1, Len(s)), row)
    ELSE IF TopLevel(s, "AND") # {}
    THEN LET i == Min(TopLevel(s, "AND"))
         IN Holds(SubSeq(s, 1, i - 1), row) /\ Holds(SubSeq(s, i + 1, Len(s)), row)
    ELSE IF s[1] = "("
    THEN Holds(SubSeq(s, 2, Len(s) - 1), row)
    ELSE IF s = <<QualClaimTypePred>>
    THEN row.medical
    ELSE IF s \in {<<QualClaimDateFrom>>, <<QualClaimDateTo>>}
    THEN TRUE
    ELSE s[3] = NumToken(row.company_id)

\* The rows a filter lets through: no filter admits every row, a filter that
\* does not parse is rejected and admits none.
Admits(w, row) ==
    IF ~WhereTruthy(w) THEN TRUE
    ELSE Parses(w.s) /\ Holds(w.s, row)

\* ------------------------------------------------ security.sanitize_user_input

\* Text typed by the user is a sequence of one-character strings.

IsPrefixAt(s, pat, i) ==
    i + Len(pat) - 1 <= Len(s) /\ SubSeq(s, i, i + Len(pat) - 1) = pat

RECURSIVE ReplaceAll(_, _)
\* str.replace(pat, ""): leftmost, non-overlapping occurrences, one pass.
ReplaceAll(s, pat) ==
    IF s = <<>> THEN <<>>
    ELSE IF IsPrefixAt(s, pat, 1)
    THEN ReplaceAll(SubSeq(s, Len(pat) + 1, Len(s)), pat)
    ELSE <<Head(s)>> \o ReplaceAll(Tail(s), pat)

\* The denylist, in the order the loop visits it.
dangerous_chars ==
    << <<"'">>, <<"\"">>, <<";">>, <<"-", "-">>, <<"/", "*">>, <<"*", "/">>,
       <<"D", "R", "O", "P">>, <<"D", "E", "L", "E", "T", "E">>,
       <<"I", "N", "S", "E", "R", "T">>, <<"U", "P", "D", "A", "T", "E">> >>

RECURSIVE RemoveFrom(_, _)
\* The for loop of sanitize_user_input from denylist entry k on.
RemoveFrom(s, k) ==
    IF k > Len(dangerous_chars) THEN s
    ELSE RemoveFrom(ReplaceAll(s, dangerous_chars[k]), k + 1)

Whitespace == {" ", "\t", "\n"}

RECURSIVE LStrip(_)
LStrip(s) == IF s # <<>> /\ Head(s) \in Whitespace THEN LStrip(Tail(s)) ELSE s

RECURSIVE RStrip(_)
RStrip(s) ==
    IF s # <<>> /\ s[Len(s)] \in Whitespace THEN RStrip(SubSeq(s, 1, Len(s) - 1)) ELSE s

\* str.strip()
Strip(s) == RStrip(LStrip(s))

\* sanitize_user_input, mutated: quote and semicolon characters are blanked
\* instead of removed.
SanitizeBlanking(user_input) ==
    [i \in 1..Len(user_input) |->
        IF user_input[i] \in {"'", "\"", ";"} THEN " " ELSE user_input[i]]

\* security.sanitize_user_input: "" for empty input, else every denylist
\* entry removed in turn, then stripped.
sanitize_user_input(user_input) ==
    IF user_input = <<>> THEN <<>> ELSE Strip(RemoveFrom(user_input, 1))

\* str.lower() on the letters the model's questions use.
LowerChar(c) ==
    CASE c = "D" -> "d" [] c = "R" -> "r" [] c = "O" -> "o" [] c = "P" -> "p"
      [] OTHER -> c

Lower(s) == [i \in 1..Len(s) |-> LowerChar(s[i])]

\* Python's substring test: pat in s.
Contains(s, pat) == \E i \in 1..(Len(s) + 1) : IsPrefixAt(s, pat, i)

\* ------------------------------------------------------- metric catalog

\* InsuranceAgent._get_fallback_metrics (names only).
FallbackMetrics ==
    <<"total_claims", "paid_amount", "member_responsibility", "claims_by_type",
      "deductible_met", "oop_spent">>

\* InsuranceAgent._get_fallback_dimensions (names only).
FallbackDimensions ==
    <<"claim_date", "claim_type", "claim_status", "provider_name", "department",
      "plan_type">>

\* What call_mcp_tool + _parse_jsonish can produce for a listing tool: the
\* call raises, the payload is empty, it parses to something that is not a
\* list, or it parses to a list.
McpMetricLists == {<<>>, <<"deductible_met", "member_count">>}
McpDimensionLists == {<<"claim_date">>}
ListPayloads(lists) ==
    {[kind |-> k, list |-> <<>>] : k \in {"raise", "empty", "non_list"}}
        \cup {[kind |-> "list", list |-> l] : l \in lists}

\* mcp_list_metrics / mcp_get_dimensions: a list is returned, anything else
\* raises RuntimeError (or re-raises the tool failure).
mcp_list(payload) ==
    IF payload.kind = "list"
    THEN [raised |-> FALSE, list |-> payload.list]
    ELSE [raised |-> TRUE, list |-> <<>>]

\* What a loader returns: the list, with the number of calls it made to the
\* listing tool and whether an exception left it.
Loaded(list, attempts) == [raised |-> FALSE, attempts |-> attempts, list |-> list]

\* _load_available_metrics, mutated: a failed listing is not caught.
LoadMetricsUncaught(mcp_available, payload) ==
    IF mcp_available
    THEN IF mcp_list(payload).raised
         THEN [raised |-> TRUE, attempts |-> 1, list |-> <<>>]
         ELSE Loaded(mcp_list(payload).list, 1)
    ELSE Loaded(FallbackMetrics, 0)

\* InsuranceAgent._load_available_metrics: one call of mcp_list_metrics when
\* the client is available; the except branch and the else branch return the
\* fallback list.
_load_available_metrics(mcp_available, payload) ==
    IF mcp_available
    THEN IF mcp_list(payload).raised
         THEN Loaded(FallbackMetrics, 1)
         ELSE Loaded(mcp_list(payload).list, 1)
    ELSE Loaded(FallbackMetrics, 0)

\* InsuranceAgent._load_available_dimensions: as above, and the tool is not
\* called when available_metrics is empty.
_load_available_dimensions(mcp_available, available_metrics, payload) ==
    IF mcp_available /\ available_metrics # <<>>
    THEN IF mcp_list(payload).raised
         THEN Loaded(FallbackDimensions, 1)
         ELSE Loaded(mcp_list(payload).list, 1)
    ELSE Loaded(FallbackDimensions, 0)

\* ----------------------------------------------------------- query requests

GroupBys == {<<>>, <<[name |-> "claim_date", grain |-> "month"]>>}

OrderBys == {<<>>, <<[name |-> "claim_date", descending |-> TRUE]>>}

\* query_args['limit']: key absent (None) or an int.
AbsentLimit == [present |-> FALSE, val |-> 0]
IntLimit(n) == [present |-> TRUE, val |-> n]
Limits == {AbsentLimit} \cup {IntLimit(n) : n \in 0..MaxLimit}

\* Python truthiness of limit: None and 0 are falsy.
LimitTruthy(l) == l.present /\ l.val # 0

\* Where strings longer than MaxWhereLen that the model's LLM may also return:
\* a parenthesis break-out with OR, and a where that already carries clauses.
LongWheres ==
    { <<ClaimTypePred, ")", "OR", "(", ClaimTypePred>>,
      <<ClaimTypePred, "AND", DimCompanyId, "=", NumToken(NumCompanies)>> }

\* A few short where strings for the full pipeline: empty, a predicate on
\* another dimension, a tenant clause of the LLM's own.
ShortWheres ==
    { <<>>, <<ClaimTypePred>>, <<DimCompanyId, "=", NumToken(NumCompanies)>> }

\* The parenthesis break-out with OR.
BreakOutWhere == <<ClaimTypePred, ")", "OR", "(", ClaimTypePred>>

WhereValues(strings) == {AbsentWhere, NullWhere} \cup {StrWhere(s) : s \in strings}

QueryArgs(metricLists, groupBys, wheres, orderBys, limits) ==
    [metrics : metricLists, group_by : groupBys, where : wheres,
     order_by : orderBys, limit : limits]

NoArgs ==
    [metrics |-> <<>>, group_by |-> <<>>, where |-> AbsentWhere,
     order_by |-> <<>>, limit |-> AbsentLimit]

\* ------------------------------------------------------------ query results

\* Rows of the demo date range at month grain (stands for the 12 months).
MonthRows == 2

\* Values the demo generator may draw for a metric cell.
MetricValues == {100, 250}

\* A cell of a result row: column name and value; a value is a date (the
\* index of the day in the range) or a number.
DateValue(i) == [kind |-> "date", v |-> i]
NumValue(n) == [kind |-> "num", v |-> n]
Cell(col, value) == [col |-> col, value |-> value]

RECURSIVE Dedupe(_)
\* Keys of a dict filled in list order: first occurrences, in order.
Dedupe(s) ==
    IF s = <<>> THEN <<>>
    ELSE LET init == Dedupe(SubSeq(s, 1, Len(s) - 1))
         IN IF s[Len(s)] \in Range(init) THEN init ELSE Append(init, s[Len(s)])

\* len(dates) in DbtSemanticLayer.query_metrics: the grain of the first
\* group_by entry counts only when some entry names claim_date.
NDates(group_by) ==
    IF \E i \in 1..Len(group_by) : group_by[i].name = "claim_date"
    THEN IF group_by[1].grain = "month" THEN MonthRows ELSE DayRows
    ELSE DayRows

\* The DataFrame built from sample_data, as records: claim_date, then one
\* column per metric.
Frame(metrics, n, v) ==
    [i \in 1..n |->
        <<Cell("claim_date", DateValue(i))>>
            \o [k \in 1..Len(Dedupe(metrics)) |-> Cell(Dedupe(metrics)[k], NumValue(v))]]

\* df.head(limit) when limit is truthy.
HeadLimit(rows, limit) ==
    IF LimitTruthy(limit) /\ limit.val < Len(rows)
    THEN SubSeq(rows, 1, limit.val)
    ELSE rows

\* What can happen inside DbtSemanticLayer.query_metrics: the body succeeds;
\* the body raises and the handler returns an empty DataFrame; the handler's
\* own st.error / logger call raises, so an exception escapes.
PrimaryOutcomes == {"ok", "fails", "escapes"}

\* DbtSemanticLayer.query_metrics followed by df.to_dict('records').
query_metrics(metrics, group_by, limit, outcome, v) ==
    IF outcome = "ok"
    THEN HeadLimit(Frame(metrics, NDates(group_by), v), limit)
    ELSE <<>>

\* What mcp_query_metrics + json.loads can produce: the tool call raises, the
\* text starts with an error prefix, the text is not JSON, or it parses to a
\* list of rows or to a JSON object that is not a list.
McpOutcomes == {"raise", "error_text", "unparsable", "no_rows", "one_row", "rows", "object"}

\* mcp_query_metrics: raises on a failed call and on an error-prefixed text.
mcp_query_metrics_raises(outcome) == outcome \in {"raise", "error_text"}

McpRows(metrics, outcome, v) ==
    LET row == [k \in 1..Len(Dedupe(metrics)) |-> Cell(Dedupe(metrics)[k], NumValue(v))]
    IN CASE outcome = "one_row" -> <<row>>
         [] outcome = "rows" -> <<row, row>>
         [] OTHER -> <<>>

\* The value _execute_metrics_query returns: a list of rows, or a JSON object.
ListData(rows) == [kind |-> "list", rows |-> rows]
ObjectData == [kind |-> "object", rows |-> <<>>]

\* ----------------------------------------------------------------- responses

NoPayload == [kind |-> "None", metric |-> "", value |-> NumValue(0), rows |-> <<>>]
MetricPayload(m, value) == [kind |-> "metric", metric |-> m, value |-> value, rows |-> <<>>]
RowsPayload(data) == [kind |-> data.kind, metric |-> "", value |-> NumValue(0), rows |-> data.rows]

Response(type, message, data) == [type |-> type, message |-> message, data |-> data]

NoDataMessage ==
    <<"I didn't find any data for your query. This might be because there are no records matching your criteria.">>

NoClientMessage ==
    <<"AI functionality is not available. Please configure your OpenAI API key.">>

ProcessingErrorMessage(reason) ==
    <<"I'm sorry, I encountered an error processing your question: ", reason>>

RetrievalErrorMessage(reason) == <<"I had trouble retrieving that data: ", reason>>

\* str(e) of the exceptions the pipeline can meet.
JsonErrorReason == "Expecting value: line 1 column 1 (char 0)"
NoCompanyReason == "No company_id found in session - potential security breach!"
NotADictReason == "'list' object has no attribute 'get'"
McpErrorReason == "dbt MCP query failed"
LlmErrorReason == "Connection error."

MonetaryMetrics ==
    {"deductible_met", "oop_spent", "total_claims", "paid_amount", "member_responsibility"}

\* Metric names that contain 'count'.
CountMetrics == {"member_count"}

KwDeductible == <<"d", "e", "d", "u", "c", "t", "i", "b", "l", "e">>
KwOutOfPocket == <<"o", "u", "t", "-", "o", "f", "-", "p", "o", "c", "k", "e", "t">>
KwOop == <<"o", "o", "p">>
KwClaims == <<"c", "l", "a", "i", "m", "s">>

\* f"${value:,.2f}" for a number of a monetary metric, str(value) otherwise.
FormatValue(metric_name, value) ==
    IF value.kind = "num" /\ metric_name \in MonetaryMetrics
    THEN <<"$", ToString(value.v), ".00">>
    ELSE IF value.kind = "num" THEN <<ToString(value.v)>>
    ELSE <<"2024-01-", ToString(value.v), " 00:00:00">>

\* InsuranceAgent._format_single_metric_response
_format_single_metric_response(metric_name, value, question) ==
    LET fv == FormatValue(metric_name, value)
        q == Lower(question)
    IN IF Contains(q, KwDeductible)
       THEN <<"You have met **">> \o fv \o <<"** of your deductible so far this year.">>
       ELSE IF Contains(q, KwOutOfPocket) \/ Contains(q, KwOop)
       THEN <<"Your out-of-pocket spending this year is **">> \o fv \o <<"**.">>
       ELSE IF Contains(q, KwClaims) /\ metric_name \in CountMetrics
       THEN <<"You have **">> \o fv \o <<"** claims on record.">>
       ELSE <<"Your **", metric_name, "** is **">> \o fv \o <<"**.">>

RECURSIVE Join(_)
\* ', '.join(names)
Join(names) ==
    IF Len(names) <= 1 THEN names
    ELSE <<Head(names), ", ">> \o Join(Tail(names))

\* InsuranceAgent._format_data_response
_format_data_response(query_args) ==
    IF query_args.group_by # <<>>
    THEN <<"Here's your **">> \o Join(query_args.metrics) \o <<"** broken down by **">>
            \o Join([i \in 1..Len(query_args.group_by) |-> query_args.group_by[i].name])
            \o <<"**:">>
    ELSE <<"Here are your **">> \o Join(query_args.metrics) \o <<"** results:">>

\* Python truthiness of the query result: an empty list is falsy.
DataTruthy(data) == data.kind = "object" \/ data.rows # <<>>

\* _generate_response_from_data, mutated: the empty-result test is missing.
GenerateWithoutEmptyCheck(data, user_question, query_args) ==
    IF data.kind = "list" /\ Len(data.rows) = 1 /\ Len(query_args.metrics) = 1
    THEN LET metric_name == query_args.metrics[1]
             value == IF data.rows[1] # <<>> THEN data.rows[1][1].value ELSE NumValue(0)
         IN Response("metric",
                     _format_single_metric_response(metric_name, value, user_question),
                     MetricPayload(metric_name, value))
    ELSE IF data.kind = "list" /\ Len(data.rows) > 1
    THEN Response("data", _format_data_response(query_args), RowsPayload(data))
    ELSE Response("data", <<"Here's what I found:">>, RowsPayload(data))

\* _generate_response_from_data, mutated: the rows of a table are handed on
\* newest first.
GenerateResorted(data, user_question, query_args) ==
    IF ~DataTruthy(data)
    THEN Response("text", NoDataMessage, NoPayload)
    ELSE IF data.kind = "list" /\ Len(data.rows) = 1 /\ Len(query_args.metrics) = 1
    THEN LET metric_name == query_args.metrics[1]
             value == IF data.rows[1] # <<>> THEN data.rows[1][1].value ELSE NumValue(0)
         IN Response("metric",
                     _format_single_metric_response(metric_name, value, user_question),
                     MetricPayload(metric_name, value))
    ELSE IF data.kind = "list" /\ Len(data.rows) > 1
    THEN Response("data", _format_data_response(query_args),
                  RowsPayload(ListData([i \in 1..Len(data.rows) |->
                                           data.rows[Len(data.rows) + 1 - i]])))
    ELSE Response("data", <<"Here's what I found:">>, RowsPayload(data))

\* InsuranceAgent._generate_response_from_data
_generate_response_from_data(data, user_question, query_args) ==
    IF ~DataTruthy(data)
    THEN Response("text", NoDataMessage, NoPayload)
    ELSE IF data.kind = "list" /\ Len(data.rows) = 1 /\ Len(query_args.metrics) = 1
    THEN LET metric_name == query_args.metrics[1]
             value == IF data.rows[1] # <<>> THEN data.rows[1][1].value ELSE NumValue(0)
         IN Response("metric",
                     _format_single_metric_response(metric_name, value, user_question),
                     MetricPayload(metric_name, value))
    ELSE IF data.kind = "list" /\ Len(data.rows) > 1
    THEN Response("data", _format_data_response(query_args), RowsPayload(data))
    ELSE Response("data", <<"Here's what I found:">>, RowsPayload(data))

\* ------------------------------------------------------------ the pipeline

\* One call of a query executor, as the executor sees it: the channel, the
\* function that made it, the session's company_id when it was made, the
\* request, and the filter the service is sent (the primary channel
\* qualifies the where first, the MCP channel sends it as it is).
ExecutorCall(channel, caller, company, query_args, filter) ==
    [channel |-> channel, caller |-> caller, company |-> company,
     args |-> query_args, filter |-> filter]

\* function_call.arguments: text that is not JSON, JSON that is not an
\* object, or a JSON object.
InvalidJson == [kind |-> "invalid_json", args |-> NoArgs]
NonObject == [kind |-> "non_object", args |-> NoArgs]
ObjectArgs(a) == [kind |-> "object", args |-> a]

\* The chat completion: the API call raises, the message is plain text, or
\* the message carries a function call.
LlmRaise == [kind |-> "raise", content |-> <<>>, name |-> "", arguments |-> InvalidJson]
LlmText(c) == [kind |-> "text", content |-> c, name |-> "", arguments |-> InvalidJson]
LlmCall(n, a) == [kind |-> "call", content |-> <<>>, name |-> n, arguments |-> a]
NoLlm == [kind |-> "none", content |-> <<>>, name |-> "", arguments |-> InvalidJson]

\* _execute_metrics_query, mutated: the fallback sends the request as the LLM
\* wrote it, without the injected tenant clause.
ExecuteWithRawFallback(uc, arguments, p, m, v) ==
    LET f == get_company_filter(uc)
        qa == InjectCompanyFilter(arguments.args, f.company_id)
        call1 == ExecutorCall("semantic_layer", "_execute_metrics_query",
                              uc.company_id, qa, _qualify_where_clause(qa.where))
        call2 == ExecutorCall("mcp", "_execute_metrics_query",
                              uc.company_id, arguments.args, arguments.args.where)
        Raise(reason, calls, pr, mc) ==
            [raised |-> TRUE, reason |-> reason, data |-> ListData(<<>>),
             query_args |-> arguments.args, calls |-> calls, lookups |-> 1,
             primary |-> pr, mcp |-> mc]
        Return(data, calls, pr, mc) ==
            [raised |-> FALSE, reason |-> "", data |-> data,
             query_args |-> qa, calls |-> calls, lookups |-> 1,
             primary |-> pr, mcp |-> mc]
    IN IF f.raised THEN Raise(NoCompanyReason, <<>>, "none", "none")
       ELSE IF arguments.kind # "object" THEN Raise(NotADictReason, <<>>, "none", "none")
       ELSE IF p # "escapes"
       THEN Return(ListData(query_metrics(qa.metrics, qa.group_by, qa.limit, p, v)),
                   <<call1>>, p, "none")
       ELSE IF mcp_query_metrics_raises(m)
       THEN Raise(McpErrorReason, <<call1, call2>>, p, m)
       ELSE IF m = "unparsable"
       THEN Raise(JsonErrorReason, <<call1, call2>>, p, m)
       ELSE IF m = "object"
       THEN Return(ObjectData, <<call1, call2>>, p, m)
       ELSE Return(ListData(McpRows(qa.metrics, m, v)), <<call1, call2>>, p, m)

\* InsuranceAgent._execute_metrics_query: the tenant lookup, the injection,
\* the primary channel and, when an exception escapes it, the MCP channel.
_execute_metrics_query(uc, arguments, p, m, v) ==
    LET f == get_company_filter(uc)
        qa == InjectCompanyFilter(arguments.args, f.company_id)
        call1 == ExecutorCall("semantic_layer", "_execute_metrics_query",
                              uc.company_id, qa, _qualify_where_clause(qa.where))
        call2 == ExecutorCall("mcp", "_execute_metrics_query",
                              uc.company_id, qa, qa.where)
        Raise(reason, calls, pr, mc) ==
            [raised |-> TRUE, reason |-> reason, data |-> ListData(<<>>),
             query_args |-> arguments.args, calls |-> calls, lookups |-> 1,
             primary |-> pr, mcp |-> mc]
        Return(data, calls, pr, mc) ==
            [raised |-> FALSE, reason |-> "", data |-> data,
             query_args |-> qa, calls |-> calls, lookups |-> 1,
             primary |-> pr, mcp |-> mc]
    IN IF f.raised THEN Raise(NoCompanyReason, <<>>, "none", "none")
       ELSE IF arguments.kind # "object" THEN Raise(NotADictReason, <<>>, "none", "none")
       ELSE IF p # "escapes"
       THEN Return(ListData(query_metrics(qa.metrics, qa.group_by, qa.limit, p, v)),
                   <<call1>>, p, "none")
       ELSE IF mcp_query_metrics_raises(m)
       THEN Raise(McpErrorReason, <<call1, call2>>, p, m)
       ELSE IF m = "unparsable"
       THEN Raise(JsonErrorReason, <<call1, call2>>, p, m)
       ELSE IF m = "object"
       THEN Return(ObjectData, <<call1, call2>>, p, m)
       ELSE Return(ListData(McpRows(qa.metrics, m, v)), <<call1, call2>>, p, m)

\* What one process_query call leaves behind.
\* No query returned a value.
NoQueryData == [kind |-> "none", rows |-> <<>>]

Outcome(response, llm, calls, lookups, pr, mc) ==
    [response |-> response, llm |-> llm, calls |-> calls, lookups |-> lookups,
     primary |-> pr, mcp |-> mc, data |-> NoQueryData]

\* _process_openai_response, mutated: arguments that do not parse are taken
\* for an empty request and executed.
ProcessResponseUnparsed(uc, l, user_question, p, m, v) ==
    IF l.kind = "call" /\ l.name = "query_metrics"
    THEN LET e == _execute_metrics_query(uc, ObjectArgs(l.arguments.args), p, m, v)
         IN IF e.raised
            THEN Outcome(Response("error", RetrievalErrorMessage(e.reason), NoPayload),
                         l, e.calls, e.lookups, e.primary, e.mcp)
            ELSE Outcome(_generate_response_from_data(e.data, user_question, e.query_args),
                         l, e.calls, e.lookups, e.primary, e.mcp)
    ELSE Outcome(Response("text", l.content, NoPayload), l, <<>>, 0, "none", "none")

\* _process_openai_response, mutated: a message without a function call is
\* answered by running an empty request.
ProcessResponseEager(uc, l, user_question, p, m, v) ==
    IF l.kind = "call" /\ l.name = "query_metrics" /\ l.arguments.kind = "invalid_json"
    THEN Outcome(Response("error", RetrievalErrorMessage(JsonErrorReason), NoPayload),
                 l, <<>>, 0, "none", "none")
    ELSE LET a == IF l.kind = "call" /\ l.name = "query_metrics"
                  THEN l.arguments ELSE ObjectArgs(NoArgs)
             e == _execute_metrics_query(uc, a, p, m, v)
         IN IF e.raised
            THEN Outcome(Response("error", RetrievalErrorMessage(e.reason), NoPayload),
                         l, e.calls, e.lookups, e.primary, e.mcp)
            ELSE Outcome(_generate_response_from_data(e.data, user_question, e.query_args),
                         l, e.calls, e.lookups, e.primary, e.mcp)

\* InsuranceAgent._process_openai_response
_process_openai_response(uc, l, user_question, p, m, v) ==
    IF l.kind = "call" /\ l.name = "query_metrics"
    THEN IF l.arguments.kind = "invalid_json"
         THEN Outcome(Response("error", RetrievalErrorMessage(JsonErrorReason), NoPayload),
                      l, <<>>, 0, "none", "none")
         ELSE LET e == _execute_metrics_query(uc, l.arguments, p, m, v)
              IN IF e.raised
                 THEN Outcome(Response("error", RetrievalErrorMessage(e.reason), NoPayload),
                              l, e.calls, e.lookups, e.primary, e.mcp)
                 ELSE [Outcome(_generate_response_from_data(e.data, user_question,
                                                            e.query_args),
                               l, e.calls, e.lookups, e.primary, e.mcp)
                          EXCEPT !.data = e.data]
    ELSE Outcome(Response("text", l.content, NoPayload), l, <<>>, 0, "none", "none")

\* InsuranceAgent.process_query
process_query(ag, uc, raw_question, l, p, m, v) ==
    LET user_question == sanitize_user_input(raw_question)
    IN IF ~ag.client
       THEN Outcome(Response("error", NoClientMessage, NoPayload), NoLlm, <<>>, 0, "none", "none")
       ELSE IF l.kind = "raise"
       THEN Outcome(Response("error", ProcessingErrorMessage(LlmErrorReason), NoPayload),
                    l, <<>>, 0, "none", "none")
       ELSE _process_openai_response(uc, l, user_question, p, m, v)

\* ---------------------------------------------------------------- the state

VARIABLES
    user_context,   \* st.session_state.user_context (its company_id)
    mcp_client,     \* the lru_cache of _get_mcp_client holds a client
    agent,          \* st.session_state.agent
    last,           \* what the latest operation did and returned
    ef,             \* tenant filter injection applied on its own
    sn,             \* sanitize_user_input applied on its own
    authenticated,  \* st.session_state.authenticated
    clock,          \* datetime.now(), in minutes
    messages,       \* st.session_state.messages
    cache,          \* the st.cache_data store of get_cached_metrics
    vq              \* validate_query_filters applied on its own

vars ==
    <<user_context, mcp_client, agent, last, ef, sn,
      authenticated, clock, messages, cache, vq>>

NoAgent ==
    [constructed |-> FALSE, client |-> FALSE,
     available_metrics |-> <<>>, available_dimensions |-> <<>>]

NoResponse == Response("none", <<>>, NoPayload)

\* The value a query helper returns: None, a dict of metrics / a list of
\* rows, or an exception.
NoReturn == [kind |-> "None", rows |-> <<>>]
Returned(kind, rows) == [kind |-> kind, rows |-> rows]

\* What one catalog loader met and did: whether is_mcp_available answered
\* True, what the listing tool produced, how many times the tool was called,
\* whether an exception left the loader.
Load(available, payload, r) ==
    [available |-> available, payload |-> payload.kind,
     attempts |-> r.attempts, raised |-> r.raised]
NoLoad == [available |-> FALSE, payload |-> "none", attempts |-> 0, raised |-> FALSE]
NoLoads == [metrics |-> NoLoad, dimensions |-> NoLoad]

Last(op, question, o, returned) ==
    [op |-> op, question |-> question, llm |-> o.llm, primary |-> o.primary,
     mcp |-> o.mcp, response |-> o.response, calls |-> o.calls,
     lookups |-> o.lookups, data |-> o.data, returned |-> returned,
     loads |-> NoLoads]

NoOutcome == Outcome(NoResponse, NoLlm, <<>>, 0, "none", "none")

\* No operation has run yet in the current script run.
Idle == Last("idle", <<>>, NoOutcome, NoReturn)

EfIdle ==
    [stage |-> "idle", input |-> NoArgs, once |-> NoArgs, twice |-> NoArgs]

SnIdle == [stage |-> "idle", input |-> <<>>, once |-> <<>>, twice |-> <<>>]

VqIdle == [stage |-> "idle", raised |-> FALSE, input |-> <<>>, output |-> <<>>]

\* Before login the session store has no user_context, or one whose
\* company_id is an empty placeholder.
Init ==
    /\ user_context \in {EmptyContext, [EmptyContext EXCEPT !.company_id = NoneId]}
    /\ mcp_client = FALSE
    /\ agent = NoAgent
    /\ last = Idle
    /\ ef = EfIdle
    /\ sn = SnIdle
    /\ authenticated = FALSE
    /\ clock = 0
    /\ messages = <<>>
    /\ cache = <<>>
    /\ vq = VqIdle

\* --------------------------------------------------------------- operations

\* handle_authentication, lines 119-122: a successful login stores the user
\* context built by authenticate_user and sets authenticated; company_id and
\* member_id are the ints of the member's row (0 is an int a seed file may
\* hold; the first company has such a member), session_timeout is the login
\* time plus the session lifetime.
Login ==
    \E c \in 0..NumCompanies : \E m \in {1} \cup (IF c = 1 THEN {0} ELSE {}) :
        /\ last.op = "idle"
        /\ user_context' = Context(IntId(c), IntId(m), "member@example.com",
                                    [set |-> TRUE, at |-> clock + SessionTimeoutMinutes])
        /\ authenticated' = TRUE
        /\ last' = Last("login", <<>>, NoOutcome, NoReturn)
        /\ UNCHANGED <<mcp_client, agent, ef, sn, clock, messages, cache, vq>>

\* render_chat_interface, lines 17-19, and InsuranceAgent.__init__: the agent
\* is built once per session; each loader asks is_mcp_available once and
\* calls its listing tool at most once.
ConstructAgent ==
    /\ last.op = "idle"
    /\ ~agent.constructed
    /\ \E api_key \in BOOLEAN, up1 \in BOOLEAN, up2 \in BOOLEAN,
          pm \in ListPayloads(McpMetricLists), pd \in ListPayloads(McpDimensionLists) :
          LET avail1 == mcp_client \/ up1
              avail2 == avail1 \/ up2
              lm == _load_available_metrics(avail1, pm)
              ld == _load_available_dimensions(avail2, lm.list, pd)
          IN /\ agent' = IF lm.raised \/ ld.raised
                         THEN agent
                         ELSE [constructed |-> TRUE, client |-> api_key,
                               available_metrics |-> lm.list,
                               available_dimensions |-> ld.list]
             /\ mcp_client' = IF lm.raised THEN avail1 ELSE avail2
             /\ last' = [Last("construct_agent", <<>>, NoOutcome, NoReturn)
                            EXCEPT !.loads = [metrics |-> Load(avail1, pm, lm),
                                              dimensions |->
                                                  IF lm.raised THEN NoLoad
                                                  ELSE Load(avail2, pd, ld)]]
    /\ UNCHANGED <<user_context, ef, sn, authenticated, clock, messages, cache, vq>>

\* Raw questions typed by the user.
Questions ==
    { <<"o", "o", "p">>,
      <<" ", "D", "R", "O", "P", "d", "e", "d", "u", "c", "t", "i", "b", "l", "e", ";">> }

Texts == { <<"Which year do you mean?">>, <<"Your plan renews in January.">> }

\* Requests the model's LLM may emit through the function call.
LLMQueryArgs ==
    QueryArgs(BoundedSeq({"deductible_met", "member_count"}, MaxMetrics), GroupBys,
              WhereValues(ShortWheres \cup {BreakOutWhere}), {<<>>}, Limits)
        \cup {[NoArgs EXCEPT !.metrics = <<"company_id">>]}

\* Responses that never reach _execute_metrics_query's channels.
PlainLlmResponses ==
    {LlmRaise} \cup {LlmText(c) : c \in Texts}
        \cup {LlmCall("other_function", InvalidJson)}
        \cup {LlmCall("query_metrics", a) : a \in {InvalidJson, NonObject}}

QueryLlmResponses == {LlmCall("query_metrics", ObjectArgs(q)) : q \in LLMQueryArgs}

\* What the two channels do for one question: the primary outcome, the MCP
\* outcome when the MCP channel is reached, the value drawn for metric cells.
Env(p, m, v) == [p |-> p, m |-> m, v |-> v]
NoEnv == Env("fails", "raise", 0)
Envs ==
    {Env("ok", "raise", v) : v \in MetricValues}
        \cup {Env("fails", "raise", 0)}
        \cup {Env("escapes", m, 0) : m \in McpOutcomes \ {"one_row", "rows"}}
        \cup {Env("escapes", m, v) : m \in {"one_row", "rows"}, v \in MetricValues}

\* process_user_message -> InsuranceAgent.process_query: one question, run to
\* completion.
ProcessQuery ==
    /\ last.op = "idle"
    /\ agent.constructed
    /\ \E raw \in Questions :
          \E l \in IF agent.client THEN PlainLlmResponses \cup QueryLlmResponses ELSE {NoLlm} :
             \E e \in IF l \in QueryLlmResponses /\ Truthy(user_context.company_id)
                      THEN Envs ELSE {NoEnv} :
                last' = Last("process_query", sanitize_user_input(raw),
                             process_query(agent, user_context, raw, l, e.p, e.m, e.v),
                             NoReturn)
    /\ UNCHANGED <<user_context, mcp_client, agent, ef, sn, authenticated, clock, messages, cache, vq>>

\* The script run ends (st.rerun, or the next interaction starts a new run).
Rerun ==
    /\ last.op # "idle"
    /\ last' = Idle
    /\ vq' = VqIdle
    /\ UNCHANGED <<user_context, mcp_client, agent, ef, sn, authenticated, clock, messages, cache>>

QuickMetricNames == <<"deductible_met", "oop_spent", "claims_by_type">>

\* The quick-stats request built by load_quick_metrics, lines 121-124.
QuickQueryArgs(company_id) ==
    [NoArgs EXCEPT !.metrics = QuickMetricNames,
                   !.where = StrWhere(company_filter(company_id))]

\* components.metrics.load_quick_metrics: None unless the MCP client exists,
\* the tenant lookup succeeds and the MCP answer parses to a non-empty list,
\* whose first row is returned.
load_quick_metrics(uc, mcp_available, m, v) ==
    LET f == get_company_filter(uc)
        qa == QuickQueryArgs(f.company_id)
        call == ExecutorCall("mcp", "load_quick_metrics", uc.company_id, qa, qa.where)
        rows == McpRows(qa.metrics, m, v)
        Result(calls, lookups, mc, returned) ==
            [o |-> Outcome(NoResponse, NoLlm, calls, lookups, "none", mc),
             returned |-> returned]
    IN IF ~mcp_available THEN Result(<<>>, 0, "none", NoReturn)
       ELSE IF f.raised THEN Result(<<>>, 1, "none", NoReturn)
       ELSE IF mcp_query_metrics_raises(m) \/ m \in {"unparsable", "object"} \/ rows = <<>>
       THEN Result(<<call>>, 1, m, NoReturn)
       ELSE Result(<<call>>, 1, m, Returned("metrics", <<rows[1]>>))

\* render_key_metrics -> load_quick_metrics (the sidebar).
LoadQuickMetrics ==
    \E up \in BOOLEAN, m \in McpOutcomes, v \in MetricValues :
        LET r == load_quick_metrics(user_context, mcp_client \/ up, m, v)
        IN /\ last.op = "idle"
           /\ last' = Last("load_quick_metrics", <<>>, r.o, r.returned)
           /\ mcp_client' = (mcp_client \/ up)
           /\ UNCHANGED <<user_context, agent, ef, sn, authenticated, clock, messages, cache, vq>>

\* semantic_layer.query_metric_data: the cached client's query_metrics, with
\* the arguments as given.
query_metric_data(caller, uc, qa, p, v) ==
    [o |-> Outcome(NoResponse, NoLlm,
                   <<ExecutorCall("semantic_layer", caller, uc.company_id, qa,
                                  _qualify_where_clause(qa.where))>>,
                   0, p, "none"),
     returned |-> IF p = "escapes"
                  THEN Returned("raised", <<>>)
                  ELSE Returned("rows", query_metrics(qa.metrics, qa.group_by, qa.limit, p, v))]

\* semantic_layer.get_claims_metrics_by_date with its default dates.
ClaimsByDateArgs ==
    [NoArgs EXCEPT !.metrics = <<"deductible_met", "oop_spent", "claims_by_type">>,
                   !.group_by = <<[name |-> "claim_date", grain |-> "day"]>>,
                   !.where = StrWhere(<<ClaimDateFrom, "AND", ClaimDateTo>>),
                   !.order_by = <<[name |-> "claim_date", descending |-> FALSE]>>]

\* semantic_layer.get_member_metrics_by_department
MembersByDepartmentArgs ==
    [NoArgs EXCEPT !.metrics = <<"member_count">>,
                   !.group_by = <<[name |-> "department", grain |-> "None"]>>,
                   !.where = NullWhere]

\* semantic_layer.get_plan_metrics
PlanMetricsArgs ==
    [NoArgs EXCEPT !.metrics = <<"monthly_premium", "annual_deductible", "oop_max">>,
                   !.group_by = <<[name |-> "plan_type", grain |-> "None"]>>,
                   !.where = NullWhere]

\* What a predefined query leaves behind.
AfterQuery(name, r) == Last(name, <<>>, r.o, r.returned)

\* show_dashboard / show_claims_analysis -> get_claims_metrics_by_date()
GetClaimsMetricsByDate ==
    /\ last.op = "idle"
    /\ \E p \in PrimaryOutcomes, v \in MetricValues :
          last' = AfterQuery("get_claims_metrics_by_date",
                     query_metric_data("get_claims_metrics_by_date", user_context,
                                       ClaimsByDateArgs, p, v))
    /\ UNCHANGED <<user_context, mcp_client, agent, ef, sn, authenticated, clock, messages, cache, vq>>

\* show_dashboard -> get_member_metrics_by_department()
GetMemberMetricsByDepartment ==
    /\ last.op = "idle"
    /\ \E p \in PrimaryOutcomes, v \in MetricValues :
          last' = AfterQuery("get_member_metrics_by_department",
                     query_metric_data("get_member_metrics_by_department", user_context,
                                       MembersByDepartmentArgs, p, v))
    /\ UNCHANGED <<user_context, mcp_client, agent, ef, sn, authenticated, clock, messages, cache, vq>>

\* get_plan_metrics()
GetPlanMetrics ==
    /\ last.op = "idle"
    /\ \E p \in PrimaryOutcomes, v \in MetricValues :
          last' = AfterQuery("get_plan_metrics",
                     query_metric_data("get_plan_metrics", user_context,
                                       PlanMetricsArgs, p, v))
    /\ UNCHANGED <<user_context, mcp_client, agent, ef, sn, authenticated, clock, messages, cache, vq>>

Next ==
    \/ Login
    \/ ConstructAgent
    \/ ProcessQuery
    \/ LoadQuickMetrics
    \/ GetClaimsMetricsByDate
    \/ GetMemberMetricsByDepartment
    \/ GetPlanMetrics
    \/ Rerun

Spec == Init /\ [][Next]_vars

\* ------------------------------------------- tenant filter injection alone

BareRequest == [NoArgs EXCEPT !.metrics = <<"deductible_met">>]

FullRequest ==
    [metrics |-> <<"deductible_met", "member_count">>,
     group_by |-> <<[name |-> "claim_date", grain |-> "month"]>>,
     where |-> AbsentWhere,
     order_by |-> <<[name |-> "claim_date", descending |-> TRUE]>>,
     limit |-> IntLimit(1)]

\* Every where of at most MaxWhereLen tokens (and the longer ones above), in
\* a request with no other field and in one with every field.
EnforceInputs ==
    {[r EXCEPT !.where = w] :
        r \in {BareRequest, FullRequest},
        w \in WhereValues(BoundedSeq(WhereAlphabet, MaxWhereLen) \cup LongWheres)}

InitEnforce ==
    /\ user_context \in {[EmptyContext EXCEPT !.company_id = c] : c \in CompanyIdValues}
    /\ mcp_client = FALSE
    /\ agent = NoAgent
    /\ last = Idle
    /\ ef \in {[EfIdle EXCEPT !.stage = "input", !.input = a] : a \in EnforceInputs}
    /\ sn = SnIdle
    /\ authenticated = FALSE
    /\ clock = 0
    /\ messages = <<>>
    /\ cache = <<>>
    /\ vq = VqIdle

\* Lines 267-277 of _execute_metrics_query applied to the input request.
EnforceOnce ==
    /\ ef.stage = "input"
    /\ LET f == get_company_filter(user_context)
       IN ef' = IF f.raised
                THEN [ef EXCEPT !.stage = "raised"]
                ELSE [ef EXCEPT !.stage = "once",
                                !.once = InjectCompanyFilter(ef.input, f.company_id)]
    /\ UNCHANGED <<user_context, mcp_client, agent, last, sn,
                 authenticated, clock, messages, cache, vq>>

\* The same lines applied again to the request they returned.
EnforceTwice ==
    /\ ef.stage = "once"
    /\ LET f == get_company_filter(user_context)
       IN ef' = [ef EXCEPT !.stage = "twice",
                           !.twice = InjectCompanyFilter(ef.once, f.company_id)]
    /\ UNCHANGED <<user_context, mcp_client, agent, last, sn,
                 authenticated, clock, messages, cache, vq>>

NextEnforce == EnforceOnce \/ EnforceTwice

SpecEnforce == InitEnforce /\ [][NextEnforce]_vars

\* --------------------------------------------------- the sanitizer alone

\* Longest input (in characters) enumerated exhaustively.
MaxInputLen == 4

\* Characters of the exhaustive inputs: the characters of the comment and
\* statement delimiters, a blank and an ordinary letter.
SanitizeAlphabet == {"-", "/", "*", ";", " ", "a"}

\* Longer inputs: keywords split by a quote, nested in themselves, and
\* between two dashes.
LongInputs ==
    { <<"D", "R", "'", "O", "P">>,
      <<"D", "D", "R", "O", "P", "R", "O", "P">>,
      <<"-", "D", "R", "O", "P", "-">>,
      <<"\"", " ", "a", " ", "\"">> }

\* The input is a str; None and '' both take the 'not user_input' return.
SanitizeInputs == BoundedSeq(SanitizeAlphabet, MaxInputLen) \cup LongInputs \cup Questions

InitSanitize ==
    /\ user_context = EmptyContext
    /\ mcp_client = FALSE
    /\ agent = NoAgent
    /\ last = Idle
    /\ ef = EfIdle
    /\ sn \in {[SnIdle EXCEPT !.stage = "input", !.input = x] : x \in SanitizeInputs}
    /\ authenticated = FALSE
    /\ clock = 0
    /\ messages = <<>>
    /\ cache = <<>>
    /\ vq = VqIdle

\* sanitize_user_input applied to the input.
SanitizeOnce ==
    /\ sn.stage = "input"
    /\ sn' = [sn EXCEPT !.stage = "once", !.once = sanitize_user_input(sn.input)]
    /\ UNCHANGED <<user_context, mcp_client, agent, last, ef,
                 authenticated, clock, messages, cache, vq>>

\* sanitize_user_input applied to its own result.
SanitizeTwice ==
    /\ sn.stage = "once"
    /\ sn' = [sn EXCEPT !.stage = "twice", !.twice = sanitize_user_input(sn.once)]
    /\ UNCHANGED <<user_context, mcp_client, agent, last, ef,
                 authenticated, clock, messages, cache, vq>>

NextSanitize == SanitizeOnce \/ SanitizeTwice

SpecSanitize == InitSanitize /\ [][NextSanitize]_vars

\* -------------------------------------- the session, its clock and the cache

\* One step of the clock, and the last minute observed.
TickMinutes == 20
MaxClock == 40

\* The ttl of the st.cache_data store of get_cached_metrics (300 s), in minutes.
CacheTtlMinutes == 5

\* Time passes between two script runs.
Tick ==
    /\ last.op = "idle"
    /\ clock + TickMinutes <= MaxClock
    /\ clock' = clock + TickMinutes
    /\ UNCHANGED <<user_context, mcp_client, agent, last, ef, sn,
                   authenticated, messages, cache, vq>>

\* One call of validate_session; it reads the session and writes nothing.
ValidateSession ==
    /\ last.op = "idle"
    /\ last' = Last("validate_session", <<>>, NoOutcome,
                    Returned(IF validate_session(authenticated, user_context, clock)
                             THEN "True" ELSE "False", <<>>))
    /\ UNCHANGED <<user_context, mcp_client, agent, ef, sn,
                   authenticated, clock, messages, cache, vq>>

\* Filter dicts handed to validate_query_filters: any of the keys
\* company_id and department, with small ints as values.
QueryFilterInputs ==
    UNION {[K -> 1..NumCompanies] : K \in SUBSET {"company_id", "department"}}

\* One call of validate_query_filters.
ValidateQueryFilters ==
    \E query_filters \in QueryFilterInputs :
        LET r == validate_query_filters(user_context, query_filters)
        IN /\ last.op = "idle"
           /\ vq' = [stage |-> "done", raised |-> r.raised,
                     input |-> query_filters, output |-> r.dict]
           /\ last' = Last("validate_query_filters", <<>>, NoOutcome, NoReturn)
           /\ UNCHANGED <<user_context, mcp_client, agent, ef, sn,
                          authenticated, clock, messages, cache>>

\* get_cached_metrics(company_id) under st.cache_data(ttl=300): the argument
\* is the cache key; an entry younger than the ttl is returned as it is,
\* otherwise the body runs load_quick_metrics() and its value is stored under
\* the key. An entry records what the body returned, when, and the executor
\* calls that produced it.
GetCachedMetrics ==
    \E company_id \in 1..NumCompanies, up \in BOOLEAN,
       m \in {"one_row", "raise"}, v \in MetricValues :
        LET hit == /\ company_id \in DOMAIN cache
                   /\ clock - cache[company_id].at < CacheTtlMinutes
            r == load_quick_metrics(user_context, mcp_client \/ up, m, v)
            entry == [at |-> clock, value |-> r.returned, calls |-> r.o.calls]
        IN /\ last.op = "idle"
           /\ IF hit
              THEN /\ last' = Last("get_cached_metrics", <<>>, NoOutcome,
                                   cache[company_id].value)
                   /\ UNCHANGED <<cache, mcp_client>>
              ELSE /\ last' = Last("get_cached_metrics", <<>>, r.o, r.returned)
                   /\ cache' = [k \in DOMAIN cache \cup {company_id} |->
                                    IF k = company_id THEN entry ELSE cache[k]]
                   /\ mcp_client' = (mcp_client \/ up)
           /\ UNCHANGED <<user_context, agent, ef, sn,
                          authenticated, clock, messages, vq>>

\* A fresh browser session: nobody is logged in, nothing is cached.
InitSession ==
    /\ user_context = EmptyContext
    /\ mcp_client = FALSE
    /\ agent = NoAgent
    /\ last = Idle
    /\ ef = EfIdle
    /\ sn = SnIdle
    /\ authenticated = FALSE
    /\ clock = 0
    /\ messages = <<>>
    /\ cache = <<>>
    /\ vq = VqIdle

NextSession ==
    \/ Login
    \/ Tick
    \/ ValidateSession
    \/ ValidateQueryFilters
    \/ GetCachedMetrics
    \/ Rerun

SpecSession == InitSession /\ [][NextSession]_vars

\* ------------------------------------------------------------------ the chat

\* The longest history observed.
MaxMessages == 6

\* components.chat.process_user_message: the user turn is appended; the agent
\* answers and the assistant turn is appended, then rendered; when the
\* rendering raises, the except branch appends an error turn. A turn keeps its
\* role and, for the record, the company_id the session held when it was
\* appended (0 when it held none); content, type and data are left out.
ProcessUserMessage ==
    /\ last.op = "idle"
    /\ agent.constructed
    /\ Len(messages) + 3 <= MaxMessages
    /\ \E l \in {LlmRaise, LlmText(<<"Which year do you mean?">>),
                  LlmCall("query_metrics",
                          ObjectArgs([NoArgs EXCEPT !.metrics = <<"deductible_met">>]))},
          render_raises \in BOOLEAN :
          \E e \in IF l.kind = "call" /\ Truthy(user_context.company_id)
                   THEN Envs ELSE {NoEnv} :
             LET user_input == <<"o", "o", "p">>
                 turn(role) == [role |-> role, company |-> user_context.company_id.val]
             IN /\ last' = Last("process_user_message", sanitize_user_input(user_input),
                                process_query(agent, user_context, user_input,
                                              l, e.p, e.m, e.v),
                                NoReturn)
                /\ messages' = messages \o <<turn("user"), turn("assistant")>>
                                    \o (IF render_raises THEN <<turn("assistant")>>
                                        ELSE <<>>)
    /\ UNCHANGED <<user_context, mcp_client, agent, ef, sn,
                   authenticated, clock, cache, vq>>

\* components.chat.clear_chat_history
ClearChatHistory ==
    /\ last.op = "idle"
    /\ messages' = <<>>
    /\ last' = Last("clear_chat_history", <<>>, NoOutcome, NoReturn)
    /\ UNCHANGED <<user_context, mcp_client, agent, ef, sn,
                   authenticated, clock, cache, vq>>

\* A browser session whose agent was built with an API key while the MCP
\* server was unreachable; nobody is logged in and the history is empty.
InitChat ==
    /\ user_context = EmptyContext
    /\ mcp_client = FALSE
    /\ agent = [constructed |-> TRUE, client |-> TRUE,
                available_metrics |-> FallbackMetrics,
                available_dimensions |-> FallbackDimensions]
    /\ last = Idle
    /\ ef = EfIdle
    /\ sn = SnIdle
    /\ authenticated = FALSE
    /\ clock = 0
    /\ messages = <<>>
    /\ cache = <<>>
    /\ vq = VqIdle

NextChat ==
    \/ Login
    \/ Tick
    \/ ProcessUserMessage
    \/ ClearChatHistory
    \/ LoadQuickMetrics
    \/ Rerun

SpecChat == InitChat /\ [][NextChat]_vars

\* ------------------------------------------------------------------- claims

\* The executor calls the agent made for the latest question.
AgentCalls ==
    {i \in 1..Len(last.calls) : last.calls[i].caller = "_execute_metrics_query"}

CallsOn(channel) == {i \in 1..Len(last.calls) : last.calls[i].channel = channel}

\* The LLM elected the query_metrics action for the latest question.
ElectedQuery ==
    last.op = "process_query" /\ last.llm.kind = "call" /\ last.llm.name = "query_metrics"

\* C1: every call of a query executor, whoever makes it (the agent, the
\* sidebar, the predefined queries), passes a where that contains a
\* company_id equality clause for the session's company_id (sessions without
\* a company_id are left aside).
C1_EveryCallCarriesTenantClause ==
    \A i \in 1..Len(last.calls) :
        LET c == last.calls[i]
        IN Truthy(c.company)
               => /\ c.args.where.kind = "str"
                  /\ ClausesFor(c.args.where.s, c.company.val) # {}

\* C2: when the session has no company_id (absent, None or empty) and the
\* LLM elects query_metrics, process_query returns an error with no data and
\* no executor is called, whatever the arguments.
C2_NoCompanyAborts ==
    (ElectedQuery /\ ~Truthy(user_context.company_id))
        => /\ last.response.type = "error"
           /\ last.response.data.kind = "None"
           /\ last.calls = <<>>

\* C2 witness: a well-formed request with a where of its own, under a session
\* whose company_id is None, was refused.
C2_Witness ==
    /\ ElectedQuery
    /\ user_context.company_id = NoneId
    /\ last.llm.arguments.kind = "object"
    /\ WhereTruthy(last.llm.arguments.args.where)
    /\ last.response.type = "error"
    /\ last.lookups = 1

\* C3: after the injection of _execute_metrics_query the where contains
\* exactly one company_id equality clause, bound to the session's company_id,
\* whatever where the request carried.
C3_ExactlyOneTenantClause ==
    \A i \in AgentCalls :
        LET c == last.calls[i]
        IN /\ ClauseCount(c.args.where.s) = 1
           /\ ClausesFor(c.args.where.s, c.company.val) # {}

\* C4: the injection is idempotent: applied twice to a request under one
\* session it yields the same request as applied once.
C4_EnforcementIdempotent == ef.stage = "twice" => ef.twice = ef.once

\* C5: with a company_id in the session the injection rewrites where to
\* '(' existing ') AND ' tenant-clause when the existing where is non-empty
\* and to the tenant clause alone otherwise; the existing expression is kept
\* verbatim inside the parentheses and no other field changes.
C5_RewriteShape ==
    ef.stage = "once" =>
        LET old == ef.input.where
            new == ef.once.where
            n == Len(old.s)
            clause == <<"{{ Dimension('company_id') }}", "=",
                        ToString(user_context.company_id.val)>>
        IN /\ new.kind = "str"
           /\ IF old.kind = "str" /\ n > 0
              THEN /\ Len(new.s) = n + 6
                   /\ new.s[1] = "("
                   /\ SubSeq(new.s, 2, n + 1) = old.s
                   /\ new.s[n + 2] = ")"
                   /\ new.s[n + 3] = "AND"
                   /\ SubSeq(new.s, n + 4, n + 6) = clause
              ELSE new.s = clause
           /\ ef.once.metrics = ef.input.metrics
           /\ ef.once.group_by = ef.input.group_by
           /\ ef.once.order_by = ef.input.order_by
           /\ ef.once.limit = ef.input.limit

\* C5 witness: a request with every field set and an unbalanced where of its
\* own went through the injection.
C5_Witness ==
    /\ ef.stage = "once"
    /\ ef.input.where = StrWhere(<<ClaimTypePred, ")", "OR", "(", ClaimTypePred>>)
    /\ ef.input.limit = IntLimit(1)
    /\ ef.input.order_by # <<>>
    /\ Len(ef.once.where.s) = 11

\* C6: whatever where the LLM returns, the filter sent to the primary
\* executor is satisfied only by rows of the session's company.
C6_OnlyTenantRowsAdmitted ==
    \A i \in AgentCalls \cap CallsOn("semantic_layer") :
        \A row \in Rows :
            Admits(last.calls[i].filter, row)
                => row.company_id = last.calls[i].company.val

\* C7: a query_metrics call naming a metric that is not in the agent's
\* catalog is answered with an error and reaches no executor.
C7_UnknownMetricRejected ==
    (/\ ElectedQuery
     /\ last.llm.arguments.kind = "object"
     /\ \E k \in 1..Len(last.llm.arguments.args.metrics) :
            last.llm.arguments.args.metrics[k] \notin Range(agent.available_metrics))
        => /\ last.response.type = "error"
           /\ last.calls = <<>>

\* C8: arguments that are not valid JSON give an error response with no data
\* that carries the parse failure reason; no tenant lookup and no executor
\* call happens.
C8_InvalidJsonIsTranslationError ==
    (ElectedQuery /\ last.llm.arguments.kind = "invalid_json")
        => /\ last.response.type = "error"
           /\ last.response.data.kind = "None"
           /\ \E k \in 1..Len(last.response.message) :
                  last.response.message[k] = "Expecting value: line 1 column 1 (char 0)"
           /\ last.lookups = 0
           /\ last.calls = <<>>

\* C8 witness: the agent had a client and a tenant, and the LLM's arguments
\* did not parse.
C8_Witness ==
    /\ ElectedQuery
    /\ last.llm.arguments.kind = "invalid_json"
    /\ Truthy(user_context.company_id)
    /\ last.response.type = "error"

\* C9: a response without a function call runs no query and its text is
\* returned unchanged, as type text with no data.
C9_PlainTextShortCircuits ==
    (last.op = "process_query" /\ last.llm.kind = "text")
        => /\ last.calls = <<>>
           /\ last.lookups = 0
           /\ last.response.type = "text"
           /\ last.response.message = last.llm.content
           /\ last.response.data.kind = "None"

\* C9 witness: under a session with a tenant the LLM answered in plain text.
C9_Witness ==
    /\ last.op = "process_query"
    /\ last.llm.kind = "text"
    /\ last.llm.content = <<"Which year do you mean?">>
    /\ Truthy(user_context.company_id)
    /\ last.response.type = "text"

\* C10: whenever the primary query fails the MCP channel is attempted exactly
\* once, and no channel is called more than once per question.
C10_FallbackAttemptedOnce ==
    last.op = "process_query" =>
        /\ last.primary \in {"fails", "escapes"} => Cardinality(CallsOn("mcp")) = 1
        /\ Cardinality(CallsOn("mcp")) <= 1
        /\ Cardinality(CallsOn("semantic_layer")) <= 1

\* The agent ran a query for the latest question and got a value back.
QueryReturned == last.op = "process_query" /\ last.data.kind # "none"

\* The request the LLM made for the latest question.
Requested == last.llm.arguments.args

\* C11: when the primary query fails and the MCP query fails too (raises,
\* returns an error-prefixed text or text that does not parse), process_query
\* returns an error response with no data; a failed query is never answered
\* with an empty-result, metric or data response.
C11_FailedQuerySurfacesError ==
    last.op = "process_query" =>
        /\ (/\ last.primary \in {"fails", "escapes"}
            /\ last.mcp \in {"raise", "error_text", "unparsable"})
               => last.response.type = "error" /\ last.response.data.kind = "None"
        /\ (/\ last.primary \in {"fails", "escapes"}
            /\ last.mcp \notin {"no_rows", "one_row", "rows", "object"})
               => last.response.type = "error"

\* C12: when the request has no limit the number of rows returned by
\* _execute_metrics_query stays under a cap: it is smaller than the whole
\* date range of the source at day grain.
C12_OmittedLimitIsBounded ==
    (QueryReturned /\ ~Requested.limit.present /\ last.data.kind = "list")
        => Len(last.data.rows) < DayRows

\* C13: whenever the executor returns zero rows the formatter answers with
\* the one fixed no-data message and no payload, whatever the request and the
\* question.
C13_ZeroRowsGiveNoDataMessage ==
    (QueryReturned /\ last.data.kind = "list" /\ last.data.rows = <<>>)
        => /\ last.response.type = "text"
           /\ last.response.message =
                  <<"I didn't find any data for your query. This might be because there are no records matching your criteria.">>
           /\ last.response.data.kind = "None"

\* C13 witness: the MCP channel answered a grouped two-metric request with an
\* empty list.
C13_Witness ==
    /\ QueryReturned
    /\ last.mcp = "no_rows"
    /\ last.data = [kind |-> "list", rows |-> <<>>]
    /\ Len(Requested.metrics) = 2
    /\ Requested.group_by # <<>>
    /\ last.response.type = "text"

\* The value a row holds in a column.
ValueOf(row, col) == row[CHOOSE i \in 1..Len(row) : row[i].col = col].value

\* C14: one row and one requested metric give a metric response that
\* reports, in the payload and in the message, that metric's value in the
\* row, whatever other columns the row has: as a dollar amount with two
\* decimals for a number of a monetary metric, plainly otherwise.
C14_ScalarReportsRequestedMetric ==
    (/\ QueryReturned
     /\ last.data.kind = "list"
     /\ Len(last.data.rows) = 1
     /\ Len(Requested.metrics) = 1)
        => LET m == Requested.metrics[1]
               value == ValueOf(last.data.rows[1], m)
               money == m \in {"deductible_met", "oop_spent", "total_claims",
                               "paid_amount", "member_responsibility"}
           IN /\ last.response.type = "metric"
              /\ last.response.data.kind = "metric"
              /\ last.response.data.metric = m
              /\ last.response.data.value = value
              /\ IF money /\ value.kind = "num"
                 THEN Contains(last.response.message, <<"$", ToString(value.v), ".00">>)
                 ELSE /\ ToString(value.v) \in Range(last.response.message)
                      /\ "$" \notin Range(last.response.message)

\* C15: more than one row gives a data response whose payload is exactly the
\* executor's rows, all of them in the order returned, and whose message
\* names the requested metrics and, when there is a group_by, its dimensions.
C15_TablePassesRowsThrough ==
    (QueryReturned /\ last.data.kind = "list" /\ Len(last.data.rows) > 1)
        => /\ last.response.type = "data"
           /\ last.response.data.kind = "list"
           /\ last.response.data.rows = last.data.rows
           /\ \A k \in 1..Len(Requested.metrics) :
                  Requested.metrics[k] \in Range(last.response.message)
           /\ \A k \in 1..Len(Requested.group_by) :
                  Requested.group_by[k].name \in Range(last.response.message)

\* C15 witness: the primary channel answered a request for two metrics by
\* month with one row per month.
C15_Witness ==
    /\ QueryReturned
    /\ last.primary = "ok"
    /\ Requested.metrics = <<"deductible_met", "member_count">>
    /\ Requested.group_by # <<>>
    /\ Len(last.data.rows) = MonthRows
    /\ last.data.rows[1] # last.data.rows[2]
    /\ last.response.type = "data"

\* C16: sanitize_user_input is idempotent: applied to its own result it
\* returns that result.
C16_SanitizeIdempotent == sn.stage = "twice" => sn.twice = sn.once

\* C17: the result of sanitize_user_input contains no denylisted substring,
\* also none that forms when a removal joins its neighbours, and neither
\* starts nor ends with whitespace.
C17_NoDenylistedSubstringLeft ==
    sn.stage = "once" =>
        /\ \A pat \in { <<"'">>, <<"\"">>, <<";">>, <<"-", "-">>, <<"/", "*">>,
                        <<"*", "/">>, <<"D", "R", "O", "P">>,
                        <<"D", "E", "L", "E", "T", "E">>,
                        <<"I", "N", "S", "E", "R", "T">>,
                        <<"U", "P", "D", "A", "T", "E">> } :
               ~Contains(sn.once, pat)
        /\ sn.once # <<>> => /\ sn.once[1] \notin {" ", "\t", "\n"}
                             /\ sn.once[Len(sn.once)] \notin {" ", "\t", "\n"}

RECURSIVE IsSubsequence(_, _)
\* a can be had from b by deleting characters.
IsSubsequence(a, b) ==
    IF a = <<>> THEN TRUE
    ELSE IF b = <<>> THEN FALSE
    ELSE IF Head(a) = Head(b) THEN IsSubsequence(Tail(a), Tail(b))
    ELSE IsSubsequence(a, Tail(b))

\* C18: sanitize_user_input never lengthens its input: the result is a
\* subsequence of the input, no longer than it, and the empty input gives
\* the empty string.
C18_SanitizeOnlyDeletes ==
    sn.stage = "once" =>
        /\ Len(sn.once) <= Len(sn.input)
        /\ IsSubsequence(sn.once, sn.input)
        /\ sn.input = <<>> => sn.once = <<>>

\* C18 witness: an input with a keyword, a semicolon and a leading blank
\* came out shorter.
C18_Witness ==
    /\ sn.stage = "once"
    /\ Contains(sn.input, <<"D", "R", "O", "P">>)
    /\ Contains(sn.input, <<";">>)
    /\ sn.input[1] = " "
    /\ sn.once # <<>>
    /\ Len(sn.once) < Len(sn.input)

\* The listing attempt of a loader did not deliver a list: the client was
\* unavailable, the tool call raised, the payload was empty or did not parse
\* to a list.
LoadFailed(l) == ~l.available \/ l.payload \in {"raise", "empty", "non_list"}

\* C19: when the agent is constructed each loader calls the live service at
\* most once; when that attempt fails the loader returns its built-in
\* fallback list, and no exception leaves a loader.
C19_LoadersFallBackOnce ==
    last.op = "construct_agent" =>
        /\ last.loads.metrics.attempts <= 1
        /\ last.loads.dimensions.attempts <= 1
        /\ ~last.loads.metrics.raised
        /\ ~last.loads.dimensions.raised
        /\ agent.constructed
        /\ LoadFailed(last.loads.metrics) =>
               agent.available_metrics =
                   <<"total_claims", "paid_amount", "member_responsibility",
                     "claims_by_type", "deductible_met", "oop_spent">>
        /\ LoadFailed(last.loads.dimensions) =>
               agent.available_dimensions =
                   <<"claim_date", "claim_type", "claim_status", "provider_name",
                     "department", "plan_type">>

\* C19 witness: the metrics listing answered, then the dimensions listing
\* raised, and the agent holds the live metrics with the fallback dimensions.
C19_Witness ==
    /\ last.op = "construct_agent"
    /\ last.loads.metrics.payload = "list"
    /\ last.loads.metrics.attempts = 1
    /\ last.loads.dimensions.payload = "raise"
    /\ last.loads.dimensions.attempts = 1
    /\ agent.available_metrics = <<"deductible_met", "member_count">>
    /\ Len(agent.available_dimensions) = 6

\* C20: after construction the agent's catalog is never empty, whatever the
\* live service did: available_metrics and available_dimensions each hold at
\* least one entry, and every entry has a name.
C20_CatalogNeverEmpty ==
    agent.constructed =>
        /\ agent.available_metrics # <<>>
        /\ agent.available_dimensions # <<>>
        /\ \A k \in 1..Len(agent.available_metrics) : agent.available_metrics[k] # ""
        /\ \A k \in 1..Len(agent.available_dimensions) : agent.available_dimensions[k] # ""

\* C22: no response of process_query exposes a tenant or member identifier:
\* no row of the payload has a company_id, member_id or employee_id column,
\* the metric payload names no such field, and the message text names none.
C22_ResponsesExposeNoIdentifiers ==
    last.op = "process_query" =>
        LET r == last.response
        IN /\ \A i \in 1..Len(r.data.rows) :
                  \A k \in 1..Len(r.data.rows[i]) :
                      r.data.rows[i][k].col \notin sensitive_fields
           /\ r.data.kind = "metric" => r.data.metric \notin sensitive_fields
           /\ \A k \in 1..Len(r.message) : r.message[k] \notin sensitive_fields

\* C23: every failure inside process_query (the LLM call raises, the
\* arguments do not parse or are no object, the session has no company_id,
\* the primary query fails and no fallback answers) ends in a response of
\* type error with no data.
C23_FailuresBecomeErrors ==
    last.op = "process_query" =>
        LET failed ==
                \/ last.llm.kind = "raise"
                \/ /\ last.llm.kind = "call"
                   /\ last.llm.name = "query_metrics"
                   /\ \/ last.llm.arguments.kind # "object"
                      \/ ~Truthy(user_context.company_id)
                      \/ last.primary = "fails"
                      \/ /\ last.primary = "escapes"
                         /\ last.mcp \in {"raise", "error_text", "unparsable"}
        IN failed => /\ last.response.type = "error"
                     /\ last.response.data.kind = "None"

\* C24: the request the agent passes to the MCP channel after the primary
\* channel failed is the enforced one: the very request the primary channel
\* was given, whose where contains the clause for the session's company_id.
C24_FallbackUsesEnforcedRequest ==
    \A i \in AgentCalls \cap CallsOn("mcp") :
        LET c == last.calls[i]
        IN /\ \E j \in AgentCalls \cap CallsOn("semantic_layer") :
                  j < i /\ last.calls[j].args = c.args
           /\ c.args.where.kind = "str"
           /\ ClausesFor(c.args.where.s, user_context.company_id.val) # {}
           /\ c.filter = c.args.where

\* C24 witness: the primary channel let an exception escape on a request
\* that carried a where of the LLM's own, and the MCP channel was called
\* with a where that differs from it.
C24_Witness ==
    /\ ElectedQuery
    /\ last.primary = "escapes"
    /\ last.mcp = "rows"
    /\ WhereTruthy(Requested.where)
    /\ \E i \in AgentCalls \cap CallsOn("mcp") :
           /\ last.calls[i].args.where # Requested.where
           /\ last.calls[i].args.metrics = Requested.metrics

\* C28: every response of process_query is well formed: its type is one of
\* error, text, metric, data; it has no data exactly when the type is error
\* or text; the type is metric exactly when the query returned a list of one
\* row for a request of one metric, and the payload is then that metric with
\* its value in the row; every other non-empty result gives type data with
\* the result as payload.
C28_ResponsesWellFormed ==
    last.op = "process_query" =>
        LET r == last.response
            scalar == /\ QueryReturned
                      /\ last.data.kind = "list"
                      /\ Len(last.data.rows) = 1
                      /\ Len(Requested.metrics) = 1
        IN /\ r.type \in {"error", "text", "metric", "data"}
           /\ (r.data.kind = "None") <=> (r.type \in {"error", "text"})
           /\ (r.type = "metric") <=> scalar
           /\ scalar => r.data = MetricPayload(Requested.metrics[1],
                                               ValueOf(last.data.rows[1],
                                                       Requested.metrics[1]))
           /\ (QueryReturned /\ DataTruthy(last.data) /\ ~scalar)
                  => r.type = "data" /\ r.data = RowsPayload(last.data)

\* C26: validate_query_filters returns, for every input dict (one that
\* already carries another tenant's company_id included), a dict whose
\* company_id is the session's and whose other keys are unchanged; it raises
\* when the session has no company_id.
C26_FiltersForcedToSessionTenant ==
    vq.stage = "done" =>
        IF ~Truthy(user_context.company_id)
        THEN vq.raised
        ELSE /\ ~vq.raised
             /\ DOMAIN vq.output = DOMAIN vq.input \cup {"company_id"}
             /\ vq.output["company_id"] = user_context.company_id.val
             /\ \A k \in DOMAIN vq.input \ {"company_id"} : vq.output[k] = vq.input[k]

\* C26 witness: under a session of company 1 a dict that carried company 2
\* and a department came back with company 1 and the same department.
C26_Witness ==
    /\ vq.stage = "done"
    /\ user_context.company_id = IntId(1)
    /\ DOMAIN vq.input = {"company_id", "department"}
    /\ vq.input["company_id"] = 2
    /\ vq.output["company_id"] = 1
    /\ vq.output["department"] = vq.input["department"]

\* C29: validate_session returns True exactly when the session is
\* authenticated, has a user_context, is not past its session_timeout, and
\* holds a non-empty member_id, company_id and email; so it returns False
\* from the moment the clock passes the timeout until a login replaces the
\* context; and the call changes nothing of the session.
C29_ValidateSessionExact ==
    [][last'.op = "validate_session" =>
          /\ (last'.returned.kind = "True") <=>
                 (/\ authenticated
                  /\ user_context # EmptyContext
                  /\ (user_context.session_timeout.set
                         => clock <= user_context.session_timeout.at)
                  /\ Truthy(user_context.member_id)
                  /\ Truthy(user_context.company_id)
                  /\ user_context.email # "")
          /\ last'.returned.kind \in {"True", "False"}
          /\ UNCHANGED <<authenticated, user_context, clock, messages, cache>>]_vars

\* C29 witness: a session logged in with every required field was found
\* invalid once the clock had passed its session_timeout.
C29_Witness ==
    /\ last.op = "validate_session"
    /\ last.returned.kind = "False"
    /\ authenticated
    /\ Truthy(user_context.member_id)
    /\ Truthy(user_context.company_id)
    /\ user_context.session_timeout.set
    /\ clock > user_context.session_timeout.at

\* C30: the metrics an entry of the cache of get_cached_metrics holds under
\* key c were loaded by a query whose where carries the clause
\* company_id = c, so get_cached_metrics(c) never returns metrics queried
\* for another company.
C30_CacheEntriesBelongToKey ==
    \A c \in DOMAIN cache :
        cache[c].value.kind = "metrics" =>
            /\ cache[c].calls # <<>>
            /\ \A i \in 1..Len(cache[c].calls) :
                   ClausesFor(cache[c].calls[i].args.where.s, c) # {}

\* C21: once the clock is past the session_timeout of the user_context, no
\* process_query and no load_quick_metrics call runs a query on either
\* channel under that context.
C21_ExpiredSessionRunsNoQuery ==
    (/\ last.op \in {"process_user_message", "load_quick_metrics"}
     /\ user_context.session_timeout.set
     /\ clock > user_context.session_timeout.at)
        => last.calls = <<>>

\* C25: each process_user_message call appends exactly two turns, the user
\* turn and then one assistant turn, and leaves the earlier turns as they
\* were, whatever the agent and the rendering do; the roles of the history
\* alternate user, assistant; only clear_chat_history empties the history.
C25_TwoTurnsPerMessage ==
    [][/\ last'.op = "process_user_message" =>
              /\ Len(messages') = Len(messages) + 2
              /\ SubSeq(messages', 1, Len(messages)) = messages
              /\ messages'[Len(messages) + 1].role = "user"
              /\ messages'[Len(messages) + 2].role = "assistant"
       /\ \A i \in 1..Len(messages') :
              messages'[i].role = IF i % 2 = 1 THEN "user" ELSE "assistant"
       /\ (messages # <<>> /\ messages' = <<>>) => last'.op = "clear_chat_history"
      ]_vars

\* C27: the tenant clause of every query is built from the company_id the
\* session holds when the query runs: after a login replaced user_context,
\* the next question asked of the same agent is queried under the new
\* company_id and under no other.
C27_ClauseFollowsCurrentSession ==
    last.op = "process_user_message" =>
        \A i \in AgentCalls :
            LET where == last.calls[i].args.where
            IN /\ where.kind = "str"
               /\ \A c \in 0..NumCompanies :
                      (ClausesFor(where.s, c) # {}) <=> (c = user_context.company_id.val)

\* C27 witness: the history holds a reply given under company 1, the
\* session now belongs to company 2, and the latest question was queried on
\* both channels.
C27_Witness ==
    /\ last.op = "process_user_message"
    /\ user_context.company_id = IntId(2)
    /\ \E k \in 1..Len(messages) :
           messages[k].role = "assistant" /\ messages[k].company = 1
    /\ AgentCalls \cap CallsOn("mcp") # {}
    /\ AgentCalls \cap CallsOn("semantic_layer") # {}

====
